---- MODULE Spec2Model ----
(***************************************************************************)
(* A model of scripts/shell_runner.py, the Terminal Buddy shell runner:    *)
(* one invocation parses its arguments, loads the history file, and then   *)
(* either reports the history, reports a usage error, or runs a command    *)
(* through the detected shell, updates the history and saves it.           *)
(*                                                                         *)
(* Strings are sequences of one-character strings, so that strip() and     *)
(* lower() are computed and not assumed.                                   *)
(***************************************************************************)
EXTENDS Integers, Sequences, FiniteSets, TLC

VARIABLES
    file,        \* content of HISTORY_FILE
    dirState,    \* HISTORY_DIR: "present", "absent" or "blocked" (cannot be created)
    env,         \* environment variables and the shell paths that exist
    pc,          \* position of the current invocation in main / run_command
    args,        \* the argparse namespace of the current invocation
    loaded,      \* the record load_history returned (SpecUpdate: the starting record)
    loadOutcome, \* which path load_history took
    history,     \* the in-memory history dict
    command,     \* main's local `command` (decoded and stripped)
    limit,       \* run_command's max_history parameter
    response,    \* run_command's response dict / main's payload
    emitted,     \* payloads written to stdout by this invocation
    exitCode,    \* process exit code, -100 while the invocation is running
    launched,    \* subprocess.run calls made by this invocation
    updates,     \* update_history calls made by this invocation
    saves,       \* save_history calls made by this invocation
    writes,      \* times this invocation opened HISTORY_FILE for writing
    saveFailed,  \* the step of save_history that failed in this invocation
    uPrev,       \* SpecUpdate: the record before the last update_history call
    uCalls,      \* SpecUpdate: the commands passed to update_history so far
    shell,       \* SpecShell: what detect_shell returned, "" before the call
    fileBefore,  \* the file as the invocation found it (SpecRoundTrip, SpecSeq)
    seq,         \* SpecSeq: the commands executed so far and the fixed limit
    procs,       \* SpecConc: each overlapping invocation's position and locals
    fileSize,    \* SpecConc: the length of HISTORY_FILE in characters
    lastWriter   \* SpecConc: the invocation whose json.dump came last, 0 for none

vars == <<file, dirState, env, pc, args, loaded, loadOutcome, history, command,
          limit, response, emitted, exitCode, launched, updates, saves, writes,
          saveFailed, uPrev, uCalls, shell, fileBefore, seq, procs, fileSize,
          lastWriter>>

\* the variables of one invocation of Spec
invocationVars ==
    <<pc, args, loaded, loadOutcome, history, command, limit, response, emitted,
      exitCode, launched, updates, saves, writes, saveFailed>>

\* the variables only SpecShell, SpecRoundTrip, SpecSeq or SpecConc change
auxVars == <<shell, fileBefore, seq, procs, fileSize, lastWriter>>

----------------------------------------------------------------------------
(* Bounds *)

\* largest --max-history value tried (besides the default)
MaxLimit == 3
\* longest history of a starting record in SpecUpdate
MaxInitLen == 2
\* most update_history calls in a row in SpecUpdate
MaxCalls == 3

\* MAX_HISTORY_DEFAULT
MAX_HISTORY_DEFAULT == 100

----------------------------------------------------------------------------
(* Strings *)

S_empty == <<>>
S_ls == <<"l", "s">>
S_LS == <<"L", "S">>
S_pwd == <<"p", "w", "d">>
S_clear == <<"c", "l", "e", "a", "r">>
S_cls == <<"c", "l", "s">>
S_exit == <<"e", "x", "i", "t">>
S_quit == <<"q", "u", "i", "t">>
S_one == <<"1">>
S_None == <<"N", "o", "n", "e">>

UpperCase == <<"A", "B", "C", "D", "E", "F", "G", "H", "I", "J", "K", "L", "M",
               "N", "O", "P", "Q", "R", "S", "T", "U", "V", "W", "X", "Y", "Z">>
LowerCase == <<"a", "b", "c", "d", "e", "f", "g", "h", "i", "j", "k", "l", "m",
               "n", "o", "p", "q", "r", "s", "t", "u", "v", "w", "x", "y", "z">>
Whitespace == {" ", "\t", "\n"}

\* str.lower(), one character
lower_char(ch) ==
    IF \E i \in 1..26 : UpperCase[i] = ch
    THEN LowerCase[CHOOSE i \in 1..26 : UpperCase[i] = ch]
    ELSE ch

\* str.lower()
lower(s) == [i \in 1..Len(s) |-> lower_char(s[i])]

RECURSIVE lstrip(_)
lstrip(s) ==
    IF s # <<>> /\ Head(s) \in Whitespace THEN lstrip(Tail(s)) ELSE s

RECURSIVE rstrip(_)
rstrip(s) ==
    IF s # <<>> /\ s[Len(s)] \in Whitespace
    THEN rstrip(SubSeq(s, 1, Len(s) - 1))
    ELSE s

\* str.strip()
strip(s) == rstrip(lstrip(s))

\* Python's s[:n]
PySlice(s, n) ==
    IF n >= 0
    THEN SubSeq(s, 1, IF n < Len(s) THEN n ELSE Len(s))
    ELSE SubSeq(s, 1, IF Len(s) + n > 0 THEN Len(s) + n ELSE 0)

\* max(1, n) with a bug: the requested value is passed on as it is
PyMax1_NoClamp(n) == n

\* Python's max(1, n)
PyMax1(n) == IF n > 1 THEN n ELSE 1

----------------------------------------------------------------------------
(* The history record and the history file *)

\* DEFAULT_HISTORY
DEFAULT_HISTORY == [last_command |-> S_empty, history |-> <<>>]

\* A JSON scalar as it stands in the file: t is "str", "num", "null" or
\* "absent" (the key is missing), v its text.
JStr(s) == [t |-> "str", v |-> s]
JNum(s) == [t |-> "num", v |-> s]
JNull == [t |-> "null", v |-> S_empty]
JAbsent == [t |-> "absent", v |-> S_empty]

\* str(entry)
PyStr(e) == IF e.t = "null" THEN S_None ELSE e.v

\* Python truthiness of a JSON scalar (data.get's default "" for a missing key)
Truthy(e) ==
    CASE e.t = "str" -> e.v # S_empty
      [] e.t = "num" -> e.v # <<"0">>
      [] OTHER -> FALSE

\* The file does not exist
FileAbsent ==
    [kind |-> "absent", histIsList |-> FALSE, items |-> <<>>, lc |-> JAbsent,
     extra |-> FALSE]
\* The file's bytes are not UTF-8
FileBadBytes == [FileAbsent EXCEPT !.kind = "bytes_invalid"]
\* The file's text is not JSON (an empty or truncated file included)
FileBadJson == [FileAbsent EXCEPT !.kind = "text_invalid"]
\* The file holds a JSON value that is not an object
FileNotObject == [FileAbsent EXCEPT !.kind = "not_object"]
\* The file holds a JSON object; its "history" is the list `items` when
\* histIsList, otherwise something that is not a list; `extra`: other keys
FileObject(isList, items, lc, extra) ==
    [kind |-> "object", histIsList |-> isList, items |-> items, lc |-> lc,
     extra |-> extra]

\* load_history: the record returned, or the exception that escapes
load_history(f, openFails) ==
    IF f.kind = "absent"
    THEN [raised |-> FALSE, how |-> "absent", rec |-> DEFAULT_HISTORY]
    ELSE IF openFails
    THEN [raised |-> FALSE, how |-> "oserror", rec |-> DEFAULT_HISTORY]
    ELSE IF f.kind = "bytes_invalid"
    THEN [raised |-> TRUE, how |-> "UnicodeDecodeError", rec |-> DEFAULT_HISTORY]
    ELSE IF f.kind = "text_invalid"
    THEN [raised |-> FALSE, how |-> "jsonerror", rec |-> DEFAULT_HISTORY]
    ELSE IF f.kind = "not_object"
    THEN [raised |-> FALSE, how |-> "notdict", rec |-> DEFAULT_HISTORY]
    ELSE LET hist == IF f.histIsList THEN f.items ELSE <<>>
         IN  [raised |-> FALSE,
              how |-> IF f.histIsList THEN "ok" ELSE "notlist",
              rec |-> [history |-> [i \in 1..Len(hist) |-> PyStr(hist[i])],
                       last_command |->
                           IF Truthy(f.lc) THEN PyStr(f.lc) ELSE S_empty]]

\* json.dump with a bug: last_command is written empty
JsonDump_NoLastCommand(rec) ==
    FileObject(TRUE, [i \in 1..Len(rec.history) |-> JStr(rec.history[i])],
               JStr(S_empty), FALSE)

\* json.dump(history, handle): the file a completed write leaves
JsonDump(rec) ==
    FileObject(TRUE, [i \in 1..Len(rec.history) |-> JStr(rec.history[i])],
               JStr(rec.last_command), FALSE)

\* update_history with a bug: the old occurrences are not removed
update_history_NoDedup(h, c, lim) ==
    [history |-> PySlice(<<c>> \o h.history, lim), last_command |-> c]

\* update_history with a bug: the list is not truncated
update_history_NoTruncate(h, c, lim) ==
    [history |-> <<c>> \o SelectSeq(h.history, LAMBDA entry : entry # c),
     last_command |-> c]

\* update_history with a bug: last_command is left as it was
update_history_KeepLast(h, c, lim) ==
    LET commands == SelectSeq(h.history, LAMBDA entry : entry # c)
    IN  [history |-> PySlice(<<c>> \o commands, lim),
         last_command |-> h.last_command]

\* update_history: the history dict after the call
update_history(h, c, lim) ==
    LET commands == SelectSeq(h.history, LAMBDA entry : entry # c)
        inserted == <<c>> \o commands
    IN  [history |-> PySlice(inserted, lim), last_command |-> c]

----------------------------------------------------------------------------
(* Shell detection and command decoding *)

\* the fixed candidate list
candidates ==
    <<"/usr/bin/zsh", "/usr/bin/fish", "/usr/bin/bash", "/bin/bash",
      "/bin/zsh", "/bin/fish", "/bin/sh">>

\* detect_shell with a change: SHELL is tried when the override does not exist
detect_shell_FallThrough(e) ==
    IF e.TERMINAL_BUDDY_SHELL # "" /\ e.TERMINAL_BUDDY_SHELL \in e.existing
    THEN e.TERMINAL_BUDDY_SHELL
    ELSE IF e.SHELL # "" /\ e.SHELL \in e.existing
    THEN e.SHELL
    ELSE IF \E i \in 1..Len(candidates) : candidates[i] \in e.existing
    THEN candidates[CHOOSE i \in 1..Len(candidates) :
                        /\ candidates[i] \in e.existing
                        /\ \A j \in 1..(i - 1) : candidates[j] \notin e.existing]
    ELSE "/bin/sh"

\* detect_shell; an unset variable is the empty string
detect_shell(e) ==
    LET env_shell == IF e.TERMINAL_BUDDY_SHELL # "" THEN e.TERMINAL_BUDDY_SHELL
                     ELSE e.SHELL
    IN  IF env_shell # "" /\ env_shell \in e.existing
        THEN env_shell
        ELSE IF \E i \in 1..Len(candidates) : candidates[i] \in e.existing
        THEN candidates[CHOOSE i \in 1..Len(candidates) :
                            /\ candidates[i] \in e.existing
                            /\ \A j \in 1..(i - 1) : candidates[j] \notin e.existing]
        ELSE "/bin/sh"

\* An --encoded / --command argument: given or not, and its text.  For
\* --encoded, b64ok says whether base64.b64decode accepts the text and
\* bytes is what it decodes to, "0xFF" standing for a byte that is not UTF-8.
NoArg == [given |-> FALSE, text |-> S_empty, b64ok |-> FALSE, bytes |-> <<>>]
RawArg(s) == [given |-> TRUE, text |-> s, b64ok |-> FALSE, bytes |-> <<>>]
EncArg(s, ok, b) == [given |-> TRUE, text |-> s, b64ok |-> ok, bytes |-> b]

\* decode_command with a bug: a payload that does not decode falls back to
\* the raw command
decode_command_Fallback(encoded, cmd) ==
    IF encoded.given /\ encoded.text # S_empty /\ encoded.b64ok
    THEN SelectSeq(encoded.bytes, LAMBDA b : b # "0xFF")
    ELSE IF cmd.given /\ cmd.text # S_empty THEN cmd.text ELSE S_empty

\* decode_command
decode_command(encoded, cmd) ==
    IF encoded.given /\ encoded.text # S_empty
    THEN IF encoded.b64ok
         THEN SelectSeq(encoded.bytes, LAMBDA b : b # "0xFF")
         ELSE S_empty
    ELSE IF cmd.given /\ cmd.text # S_empty THEN cmd.text ELSE S_empty

----------------------------------------------------------------------------
(* Values of the variables outside an invocation *)

NoArgs ==
    [ok |-> TRUE, run |-> FALSE, history |-> FALSE, encoded |-> NoArg,
     command |-> NoArg, max_history |-> MAX_HISTORY_DEFAULT]
NoResponse == [type |-> "none"]
Running == -100

\* the variables of the other specifications, at rest
AuxIdle ==
    /\ shell = ""
    /\ fileBefore = FileAbsent
    /\ seq = [cmds |-> <<>>, kept |-> <<>>, limit |-> 0]
    /\ procs = <<>>
    /\ fileSize = 0
    /\ lastWriter = 0

\* The environment of the invocations: SHELL names an existing shell
DefaultEnv ==
    [TERMINAL_BUDDY_SHELL |-> "", SHELL |-> "/bin/bash",
     existing |-> {"/bin/bash", "/bin/sh"}]

\* Commands passed to update_history
Cmds == {S_ls, S_LS, S_pwd}

\* All sequences over S of length at most n
RECURSIVE SeqsUpTo(_, _)
SeqsUpTo(S, n) ==
    IF n = 0 THEN {<<>>}
    ELSE LET shorter == SeqsUpTo(S, n - 1)
         IN  shorter \cup {Append(q, x) : q \in {r \in shorter : Len(r) = n - 1}, x \in S}

----------------------------------------------------------------------------
(* SpecUpdate: update_history applied repeatedly, with one limit, to a      *)
(* starting record                                                         *)

InitUpdate ==
    /\ file = FileAbsent
    /\ dirState = "present"
    /\ env = DefaultEnv
    /\ pc = "update"
    /\ args = NoArgs
    /\ loaded \in [last_command : {S_empty, S_ls},
                   history : SeqsUpTo(Cmds, MaxInitLen)]
    /\ loadOutcome = "none"
    /\ history = loaded
    /\ command = S_empty
    /\ limit \in 1..MaxLimit
    /\ response = NoResponse
    /\ emitted = <<>>
    /\ exitCode = Running
    /\ launched = 0
    /\ updates = 0
    /\ saves = 0
    /\ writes = 0
    /\ saveFailed = "none"
    /\ uPrev = loaded
    /\ uCalls = <<>>
    /\ AuxIdle

UpdateStep ==
    /\ pc = "update"
    /\ Len(uCalls) < MaxCalls
    /\ \E c \in Cmds :
        /\ history' = update_history(history, c, limit)
        /\ command' = c
        /\ uCalls' = Append(uCalls, c)
    /\ uPrev' = history
    /\ updates' = updates + 1
    /\ UNCHANGED <<file, dirState, env, pc, args, loaded, loadOutcome, limit,
                   response, emitted, exitCode, launched, saves, writes,
                   saveFailed>>

NextUpdate == UpdateStep /\ UNCHANGED auxVars

SpecUpdate == InitUpdate /\ [][NextUpdate]_vars

----------------------------------------------------------------------------
(* Spec: invocations of the script, one after the other                     *)

\* History files the first invocation may find
InitFiles ==
    { FileAbsent, FileBadBytes, FileBadJson, FileNotObject,
      \* {"history": 5, "last_command": "ls"}
      FileObject(FALSE, <<>>, JStr(S_ls), FALSE),
      \* {}
      FileObject(TRUE, <<>>, JAbsent, FALSE),
      \* a record an earlier run saved
      FileObject(TRUE, <<JStr(S_ls), JStr(S_pwd)>>, JStr(S_ls), FALSE),
      \* a duplicate entry
      FileObject(TRUE, <<JStr(S_ls), JStr(S_ls)>>, JStr(S_ls), FALSE),
      \* entries that are not strings, and another key
      FileObject(TRUE, <<JNum(S_one), JStr(S_one), JNull>>, JNum(<<"0">>), TRUE),
      \* more entries than any limit tried but the default
      FileObject(TRUE, <<JStr(S_pwd), JStr(S_LS), JStr(S_ls), JStr(S_one)>>,
                 JStr(S_pwd), FALSE) }

\* --encoded values: absent, the empty string, text base64 rejects, and the
\* encoding of b"\xff pwd "
EncodedArgs ==
    { NoArg,
      EncArg(S_empty, FALSE, <<>>),
      EncArg(<<"a", "b", "c">>, FALSE, <<>>),
      EncArg(<<"/", "y", "B", "w", "d", "2", "Q", "g">>, TRUE,
             <<"0xFF", " ", "p", "w", "d", " ">>) }

\* --command values
CommandArgs ==
    { NoArg,
      RawArg(S_empty),
      RawArg(<<" ", "l", "s", " ">>),
      RawArg(S_LS),
      RawArg(<<" ", "C", "l", "e", "a", "r">>),
      RawArg(<<"C", "L", "S", "\n">>),
      RawArg(<<"Q", "U", "I", "T">>),
      RawArg(S_exit) }

\* --max-history values; the default when the option is not given
MaxHistoryArgs == {-1, 0} \cup (1..MaxLimit) \cup {MAX_HISTORY_DEFAULT}

\* The namespaces parse_args returns, and an argv it rejects
Argv ==
    {[NoArgs EXCEPT !.ok = FALSE]} \cup
    [ok : {TRUE}, run : BOOLEAN, history : BOOLEAN, encoded : EncodedArgs,
     command : CommandArgs, max_history : MaxHistoryArgs]

\* What subprocess.run does: the process's output and exit status, or an
\* exception when the shell cannot be launched
ProcOutcomes ==
    { [raised |-> FALSE, stdout |-> "out", stderr |-> "", returncode |-> 0],
      [raised |-> FALSE, stdout |-> "", stderr |-> "err", returncode |-> 1],
      [raised |-> TRUE, stdout |-> "", stderr |-> "", returncode |-> 0] }

Init ==
    /\ file \in InitFiles
    /\ dirState \in (IF file = FileAbsent THEN {"present", "absent", "blocked"}
                     ELSE {"present"})
    /\ env = DefaultEnv
    /\ pc = "idle"
    /\ args = NoArgs
    /\ loaded = DEFAULT_HISTORY
    /\ loadOutcome = "none"
    /\ history = DEFAULT_HISTORY
    /\ command = S_empty
    /\ limit = 0
    /\ response = NoResponse
    /\ emitted = <<>>
    /\ exitCode = Running
    /\ launched = 0
    /\ updates = 0
    /\ saves = 0
    /\ writes = 0
    /\ saveFailed = "none"
    /\ uPrev = DEFAULT_HISTORY
    /\ uCalls = <<>>
    /\ AuxIdle

\* emit(payload)
emit(payload) == emitted' = Append(emitted, payload)

\* A new process: main's args = parse_args(argv); argparse exits with
\* status 2 when argv does not parse
ParseArgs ==
    /\ pc = "idle"
    /\ \E a \in Argv :
        /\ args' = a
        /\ IF a.ok
           THEN pc' = "load" /\ UNCHANGED exitCode
           ELSE pc' = "exited" /\ exitCode' = 2
    /\ UNCHANGED <<file, dirState, env, loaded, loadOutcome, history, command,
                   limit, response, emitted, launched, updates, saves, writes,
                   saveFailed, uPrev, uCalls>>

\* The process is gone, and its memory with it; the files stay
ProcessEnd ==
    /\ pc = "exited"
    /\ pc' = "idle"
    /\ args' = NoArgs
    /\ loaded' = DEFAULT_HISTORY
    /\ loadOutcome' = "none"
    /\ history' = DEFAULT_HISTORY
    /\ command' = S_empty
    /\ limit' = 0
    /\ response' = NoResponse
    /\ emitted' = <<>>
    /\ exitCode' = Running
    /\ launched' = 0
    /\ updates' = 0
    /\ saves' = 0
    /\ writes' = 0
    /\ saveFailed' = "none"
    /\ UNCHANGED <<file, dirState, env, uPrev, uCalls>>

\* main: history = load_history(); an exception that escapes ends the
\* process with a traceback and status 1
LoadHistory ==
    /\ pc = "load"
    /\ \E openFails \in BOOLEAN :
        LET r == load_history(file, openFails)
        IN  /\ loadOutcome' = r.how
            /\ IF r.raised
               THEN /\ pc' = "exited"
                    /\ exitCode' = 1
                    /\ UNCHANGED <<loaded, history>>
               ELSE /\ pc' = "dispatch"
                    /\ loaded' = r.rec
                    /\ history' = r.rec
                    /\ UNCHANGED exitCode
    /\ UNCHANGED <<file, dirState, env, args, command, limit, response, emitted,
                   launched, updates, saves, writes, saveFailed, uPrev, uCalls>>

\* main: if args.history
MainHistory ==
    /\ pc = "dispatch"
    /\ args.history
    /\ LET payload == [type |-> "history", history |-> history.history,
                       last_command |-> history.last_command,
                       shell |-> detect_shell(env)]
       IN  response' = payload /\ emit(payload)
    /\ exitCode' = 0
    /\ pc' = "exited"
    /\ UNCHANGED <<file, dirState, env, args, loaded, loadOutcome, history,
                   command, limit, launched, updates, saves, writes, saveFailed,
                   uPrev, uCalls>>

\* main: if not args.run
MainNoAction ==
    /\ pc = "dispatch"
    /\ ~args.history
    /\ ~args.run
    /\ LET payload == [type |-> "error", stderr |-> "No action supplied",
                       exit_code |-> 1]
       IN  response' = payload /\ emit(payload)
    /\ exitCode' = 1
    /\ pc' = "exited"
    /\ UNCHANGED <<file, dirState, env, args, loaded, loadOutcome, history,
                   command, limit, launched, updates, saves, writes, saveFailed,
                   uPrev, uCalls>>

\* main: decode the command, strip it, and call run_command with the
\* clamped limit
MainRun ==
    /\ pc = "dispatch"
    /\ ~args.history
    /\ args.run
    /\ command' = strip(decode_command(args.encoded, args.command))
    /\ limit' = PyMax1(args.max_history)
    /\ pc' = "run_command"
    /\ UNCHANGED <<file, dirState, env, args, loaded, loadOutcome, history,
                   response, emitted, exitCode, launched, updates, saves, writes,
                   saveFailed, uPrev, uCalls>>

\* Classify with a bug: the command is not lowercased
Classify_NoLower(c) ==
    LET lowered == strip(c)
    IN  IF lowered \in {S_empty, S_clear, S_cls}
        THEN (IF lowered # S_empty THEN "clear" ELSE "")
        ELSE IF lowered \in {S_exit, S_quit} THEN "exit"
        ELSE "execute"

\* Classify with a bug: the empty command is tagged too
Classify_TagEmpty(c) ==
    LET lowered == lower(strip(c))
    IN  IF lowered \in {S_empty, S_clear, S_cls} THEN "clear"
        ELSE IF lowered \in {S_exit, S_quit} THEN "exit"
        ELSE "execute"

\* run_command's classification: "clear", "exit", "" (the empty command,
\* handled as clear but not tagged) or "execute"
Classify(c) ==
    LET lowered == lower(strip(c))
    IN  IF lowered \in {S_empty, S_clear, S_cls}
        THEN (IF lowered # S_empty THEN "clear" ELSE "")
        ELSE IF lowered \in {S_exit, S_quit} THEN "exit"
        ELSE "execute"

\* run_command, lines 119-139: build the response, classify the command,
\* and return at once for a pseudo-command
RunCommandBegin ==
    /\ pc = "run_command"
    /\ LET base == [type |-> "run", command |-> command, stdout |-> "",
                    stderr |-> "", exit_code |-> 0, shell |-> detect_shell(env),
                    history |-> history.history,
                    last_command |-> history.last_command]
           class == Classify(command)
       IN  \/ /\ class = ""
              /\ response' = base
              /\ pc' = "emit"
           \/ /\ class \in {"clear", "exit"}
              /\ response' = base @@ [action |-> class]
              /\ pc' = "emit"
           \/ /\ class = "execute"
              /\ response' = base
              /\ pc' = "subprocess"
    /\ UNCHANGED <<file, dirState, env, args, loaded, loadOutcome, history,
                   command, limit, emitted, exitCode, launched, updates, saves,
                   writes, saveFailed, uPrev, uCalls>>

\* run_command, lines 141-155: subprocess.run and its except clause
Subprocess ==
    /\ pc = "subprocess"
    /\ \E o \in ProcOutcomes :
        response' =
            IF o.raised
            THEN [response EXCEPT !.stderr = "Execution error", !.exit_code = -1]
            ELSE [response EXCEPT !.stdout = o.stdout, !.stderr = o.stderr,
                                  !.exit_code = o.returncode]
    /\ launched' = launched + 1
    /\ pc' = "update_history"
    /\ UNCHANGED <<file, dirState, env, args, loaded, loadOutcome, history,
                   command, limit, emitted, exitCode, updates, saves, writes,
                   saveFailed, uPrev, uCalls>>

\* run_command, line 157
UpdateHistory ==
    /\ pc = "update_history"
    /\ history' = update_history(history, command, limit)
    /\ updates' = updates + 1
    /\ pc' = "save_mkdir"
    /\ UNCHANGED <<file, dirState, env, args, loaded, loadOutcome, command,
                   limit, response, emitted, exitCode, launched, saves, writes,
                   saveFailed, uPrev, uCalls>>

\* save_history, line 58: HISTORY_DIR.mkdir, outside the try; its OSError
\* escapes run_command and main
SaveMkdir ==
    /\ pc = "save_mkdir"
    /\ saves' = saves + 1
    /\ IF dirState = "blocked"
       THEN /\ saveFailed' = "mkdir"
            /\ pc' = "exited"
            /\ exitCode' = 1
            /\ UNCHANGED dirState
       ELSE /\ dirState' = "present"
            /\ pc' = "save_open"
            /\ UNCHANGED <<saveFailed, exitCode>>
    /\ UNCHANGED <<file, env, args, loaded, loadOutcome, history, command,
                   limit, response, emitted, launched, updates, writes, uPrev,
                   uCalls>>

\* save_history, line 60: HISTORY_FILE.open("w") truncates the file, or
\* raises an OSError that is swallowed
SaveOpen ==
    /\ pc = "save_open"
    /\ \/ /\ saveFailed' = "open"
          /\ pc' = "run_return"
          /\ UNCHANGED <<file, writes>>
       \/ /\ file' = FileBadJson
          /\ writes' = writes + 1
          /\ pc' = "save_write"
          /\ UNCHANGED saveFailed
    /\ UNCHANGED <<dirState, env, args, loaded, loadOutcome, history, command,
                   limit, response, emitted, exitCode, launched, updates, saves,
                   uPrev, uCalls>>

\* save_history, line 61: json.dump writes the record, or raises an OSError
\* that is swallowed and leaves the file cut short
SaveWrite ==
    /\ pc = "save_write"
    /\ \/ /\ saveFailed' = "write"
          /\ UNCHANGED file
       \/ /\ file' = JsonDump(history)
          /\ UNCHANGED saveFailed
    /\ pc' = "run_return"
    /\ UNCHANGED <<dirState, env, args, loaded, loadOutcome, history, command,
                   limit, response, emitted, exitCode, launched, updates, saves,
                   writes, uPrev, uCalls>>

\* run_command's last lines with a bug: the response keeps the history it
\* was built with
RunReturn_Stale ==
    /\ pc = "run_return"
    /\ pc' = "emit"
    /\ UNCHANGED <<file, dirState, env, args, loaded, loadOutcome, history,
                   command, limit, response, emitted, exitCode, launched,
                   updates, saves, writes, saveFailed, uPrev, uCalls>>

\* run_command, lines 159-161
RunReturn ==
    /\ pc = "run_return"
    /\ response' = [response EXCEPT !.history = history.history,
                                    !.last_command = history.last_command]
    /\ pc' = "emit"
    /\ UNCHANGED <<file, dirState, env, args, loaded, loadOutcome, history,
                   command, limit, emitted, exitCode, launched, updates, saves,
                   writes, saveFailed, uPrev, uCalls>>

\* main, lines 217-218: emit(response); return 0
Emit ==
    /\ pc = "emit"
    /\ emit(response)
    /\ exitCode' = 0
    /\ pc' = "exited"
    /\ UNCHANGED <<file, dirState, env, args, loaded, loadOutcome, history,
                   command, limit, response, launched, updates, saves, writes,
                   saveFailed, uPrev, uCalls>>

Next ==
    \/ ParseArgs /\ UNCHANGED auxVars
    \/ LoadHistory /\ UNCHANGED auxVars
    \/ MainHistory /\ UNCHANGED auxVars
    \/ MainNoAction /\ UNCHANGED auxVars
    \/ MainRun /\ UNCHANGED auxVars
    \/ RunCommandBegin /\ UNCHANGED auxVars
    \/ Subprocess /\ UNCHANGED auxVars
    \/ UpdateHistory /\ UNCHANGED auxVars
    \/ SaveMkdir /\ UNCHANGED auxVars
    \/ SaveOpen /\ UNCHANGED auxVars
    \/ SaveWrite /\ UNCHANGED auxVars
    \/ RunReturn /\ UNCHANGED auxVars
    \/ Emit /\ UNCHANGED auxVars
    \/ ProcessEnd /\ UNCHANGED auxVars

Spec == Init /\ [][Next]_vars

----------------------------------------------------------------------------
(* SpecSeq: invocations one after the other, from an absent history file,   *)
(* all with one limit, every save succeeding.  seq.cmds lists the commands  *)
(* executed so far, seq.kept those executed since (and in) the last run     *)
(* whose load_history could not read the file, and fileBefore is the file   *)
(* as the current invocation found it.                                      *)

\* Executed runs in one sequence
MaxRuns == 3

\* the argument vectors of the sequence: runs of ls, LS, pwd (encoded), of
\* the pseudo-commands QUIT and "", history requests and no action at all
SeqArgv ==
    [ok : {TRUE}, run : BOOLEAN, history : BOOLEAN,
     encoded : {NoArg, EncArg(<<"/", "y", "B", "w", "d", "2", "Q", "g">>, TRUE,
                              <<"0xFF", " ", "p", "w", "d", " ">>)},
     command : {RawArg(S_empty), RawArg(<<" ", "l", "s", " ">>), RawArg(S_LS),
                RawArg(<<"Q", "U", "I", "T">>)},
     max_history : {seq.limit}]

InitSeq ==
    /\ file = FileAbsent
    /\ dirState \in {"present", "absent"}
    /\ env = DefaultEnv
    /\ pc = "idle"
    /\ args = NoArgs
    /\ loaded = DEFAULT_HISTORY
    /\ loadOutcome = "none"
    /\ history = DEFAULT_HISTORY
    /\ command = S_empty
    /\ limit = 0
    /\ response = NoResponse
    /\ emitted = <<>>
    /\ exitCode = Running
    /\ launched = 0
    /\ updates = 0
    /\ saves = 0
    /\ writes = 0
    /\ saveFailed = "none"
    /\ uPrev = DEFAULT_HISTORY
    /\ uCalls = <<>>
    /\ shell = ""
    /\ fileBefore = FileAbsent
    /\ seq \in [cmds : {<<>>}, kept : {<<>>}, limit : 1..MaxLimit]
    /\ procs = <<>>
    /\ fileSize = 0
    /\ lastWriter = 0

\* the next invocation of the sequence starts
SeqParseArgs ==
    /\ Len(seq.cmds) < MaxRuns
    /\ ParseArgs
    /\ args' \in SeqArgv
    /\ fileBefore' = file
    /\ UNCHANGED <<shell, seq, procs, fileSize, lastWriter>>

\* the process attempt: the command counts as executed
SeqSubprocess ==
    /\ Subprocess
    /\ seq' = [seq EXCEPT !.cmds = Append(@, command),
                          !.kept = IF loadOutcome = "oserror" THEN <<command>>
                                   ELSE Append(@, command)]
    /\ UNCHANGED <<shell, fileBefore, procs, fileSize, lastWriter>>

NextSeq ==
    \/ SeqParseArgs
    \/ LoadHistory /\ UNCHANGED auxVars
    \/ MainHistory /\ UNCHANGED auxVars
    \/ MainNoAction /\ UNCHANGED auxVars
    \/ MainRun /\ UNCHANGED auxVars
    \/ RunCommandBegin /\ UNCHANGED auxVars
    \/ SeqSubprocess
    \/ UpdateHistory /\ UNCHANGED auxVars
    \/ SaveMkdir /\ UNCHANGED auxVars
    \/ SaveOpen /\ saveFailed' = "none" /\ UNCHANGED auxVars
    \/ SaveWrite /\ saveFailed' = "none" /\ UNCHANGED auxVars
    \/ RunReturn /\ UNCHANGED auxVars
    \/ Emit /\ UNCHANGED auxVars
    \/ ProcessEnd /\ UNCHANGED auxVars

SpecSeq == InitSeq /\ [][NextSeq]_vars

----------------------------------------------------------------------------
(* SpecRoundTrip: load_history followed by save_history, nothing in between, *)
(* on a file that holds valid JSON                                          *)

\* JSON scalars a history list may hold
RoundTripEntries == {JStr(S_ls), JStr(S_pwd), JNum(S_one), JNull}

\* values of the last_command key: missing, "", "ls", 1, 0, null
RoundTripLastCommands ==
    {JAbsent, JStr(S_empty), JStr(S_ls), JNum(S_one), JNum(<<"0">>), JNull}

\* files holding valid JSON: a value that is not an object, objects whose
\* history is not a list, and objects with a history list
RoundTripFiles ==
    {FileNotObject}
    \cup {FileObject(FALSE, <<>>, lc, x) :
              lc \in RoundTripLastCommands, x \in BOOLEAN}
    \cup {FileObject(TRUE, items, lc, x) :
              items \in SeqsUpTo(RoundTripEntries, MaxInitLen),
              lc \in RoundTripLastCommands, x \in BOOLEAN}

InitRoundTrip ==
    /\ file \in RoundTripFiles
    /\ fileBefore = file
    /\ dirState = "present"
    /\ env = DefaultEnv
    /\ pc = "load"
    /\ args = NoArgs
    /\ loaded = DEFAULT_HISTORY
    /\ loadOutcome = "none"
    /\ history = DEFAULT_HISTORY
    /\ command = S_empty
    /\ limit = 0
    /\ response = NoResponse
    /\ emitted = <<>>
    /\ exitCode = Running
    /\ launched = 0
    /\ updates = 0
    /\ saves = 0
    /\ writes = 0
    /\ saveFailed = "none"
    /\ uPrev = DEFAULT_HISTORY
    /\ uCalls = <<>>
    /\ shell = ""
    /\ seq = [cmds |-> <<>>, kept |-> <<>>, limit |-> 0]
    /\ procs = <<>>
    /\ fileSize = 0
    /\ lastWriter = 0

\* save_history(history) called with the record as load_history returned it
RoundTripCallSave ==
    /\ pc = "dispatch"
    /\ pc' = "save_mkdir"
    /\ UNCHANGED <<file, dirState, env, args, loaded, loadOutcome, history,
                   command, limit, response, emitted, exitCode, launched,
                   updates, saves, writes, saveFailed, uPrev, uCalls>>

NextRoundTrip ==
    \/ LoadHistory /\ UNCHANGED auxVars
    \/ RoundTripCallSave /\ UNCHANGED auxVars
    \/ SaveMkdir /\ UNCHANGED auxVars
    \/ SaveOpen /\ UNCHANGED auxVars
    \/ SaveWrite /\ UNCHANGED auxVars

SpecRoundTrip == InitRoundTrip /\ [][NextRoundTrip]_vars

----------------------------------------------------------------------------
(* SpecShell: detect_shell in an environment                                *)

\* paths that may exist: two that are no candidates, and four candidates
ShellPaths ==
    {"/opt/fish", "/opt/ksh", "/bin/zsh", "/usr/bin/fish", "/bin/bash", "/bin/sh"}

\* environments: each variable unset, naming a candidate, or naming another path
ShellEnvs ==
    [TERMINAL_BUDDY_SHELL : {"", "/opt/fish", "/bin/zsh"},
     SHELL : {"", "/opt/ksh", "/bin/bash"},
     existing : SUBSET ShellPaths]

InitShell ==
    /\ env \in ShellEnvs
    /\ shell = ""
    /\ pc = "detect_shell"
    /\ file = FileAbsent
    /\ fileBefore = FileAbsent
    /\ dirState = "present"
    /\ args = NoArgs
    /\ loaded = DEFAULT_HISTORY
    /\ loadOutcome = "none"
    /\ history = DEFAULT_HISTORY
    /\ command = S_empty
    /\ limit = 0
    /\ response = NoResponse
    /\ emitted = <<>>
    /\ exitCode = Running
    /\ launched = 0
    /\ updates = 0
    /\ saves = 0
    /\ writes = 0
    /\ saveFailed = "none"
    /\ uPrev = DEFAULT_HISTORY
    /\ uCalls = <<>>
    /\ seq = [cmds |-> <<>>, kept |-> <<>>, limit |-> 0]
    /\ procs = <<>>
    /\ fileSize = 0
    /\ lastWriter = 0

\* shell_path = detect_shell()
DetectShell ==
    /\ pc = "detect_shell"
    /\ shell' = detect_shell(env)
    /\ pc' = "detected"
    /\ UNCHANGED <<file, dirState, env, args, loaded, loadOutcome, history,
                   command, limit, response, emitted, exitCode, launched,
                   updates, saves, writes, saveFailed, uPrev, uCalls,
                   fileBefore, seq, procs, fileSize, lastWriter>>

NextShell == DetectShell

SpecShell == InitShell /\ [][NextShell]_vars

----------------------------------------------------------------------------
(* SpecConc: invocations that overlap.  Each runs one executed command:     *)
(* load_history, the process, update_history, then save_history, whose      *)
(* open("w") truncates the file and whose json.dump writes the text at      *)
(* offset 0 of the invocation's own handle.  The steps of different         *)
(* invocations interleave freely; the storage directory exists and no       *)
(* system call fails.                                                       *)

\* Overlapping invocations
MaxProcs == 2

\* the sum of the lengths of the strings of s
RECURSIVE SumLen(_)
SumLen(s) == IF s = <<>> THEN 0 ELSE Len(Head(s)) + SumLen(Tail(s))

\* the number of characters json.dump(rec, handle, indent=2) writes:
\* {"last_command": "", "history": []} takes 41, each entry a line of
\* four spaces and two quotes, the lines joined by a comma and a newline
JsonSize(rec) ==
    41 + Len(rec.last_command)
       + (IF rec.history = <<>> THEN 0
          ELSE 4 + SumLen(rec.history) + 6 * Len(rec.history)
                 + 2 * (Len(rec.history) - 1))

\* the record an earlier run of pwd after ls saved
SavedRecord == [history |-> <<S_pwd, S_ls>>, last_command |-> S_pwd]

InitConc ==
    /\ \/ file = FileAbsent /\ fileSize = 0
       \/ file = JsonDump(SavedRecord) /\ fileSize = JsonSize(SavedRecord)
    /\ procs \in [1..MaxProcs ->
                    [pc : {"load"}, command : {S_ls, S_pwd},
                     limit : {1, MaxLimit}, loaded : {DEFAULT_HISTORY},
                     loadOutcome : {"none"}, history : {DEFAULT_HISTORY}]]
    /\ lastWriter = 0
    /\ dirState = "present"
    /\ env = DefaultEnv
    /\ pc = "overlapping"
    /\ args = NoArgs
    /\ loaded = DEFAULT_HISTORY
    /\ loadOutcome = "none"
    /\ history = DEFAULT_HISTORY
    /\ command = S_empty
    /\ limit = 0
    /\ response = NoResponse
    /\ emitted = <<>>
    /\ exitCode = Running
    /\ launched = 0
    /\ updates = 0
    /\ saves = 0
    /\ writes = 0
    /\ saveFailed = "none"
    /\ uPrev = DEFAULT_HISTORY
    /\ uCalls = <<>>
    /\ shell = ""
    /\ fileBefore = FileAbsent
    /\ seq = [cmds |-> <<>>, kept |-> <<>>, limit |-> 0]

\* the variables SpecConc leaves alone
concRest ==
    <<dirState, env, pc, args, loaded, loadOutcome, history, command, limit,
      response, emitted, exitCode, launched, updates, saves, writes, saveFailed,
      uPrev, uCalls, shell, fileBefore, seq>>

\* main of invocation p: history = load_history()
ConcLoad(p) ==
    /\ procs[p].pc = "load"
    /\ LET r == load_history(file, FALSE)
       IN  procs' = [procs EXCEPT ![p].loadOutcome = r.how,
                                  ![p].loaded = r.rec,
                                  ![p].history = r.rec,
                                  ![p].pc = IF r.raised THEN "exited"
                                            ELSE "subprocess"]
    /\ UNCHANGED <<file, fileSize, lastWriter>>
    /\ UNCHANGED concRest

\* run_command of invocation p: the process runs and ends
ConcSubprocess(p) ==
    /\ procs[p].pc = "subprocess"
    /\ procs' = [procs EXCEPT ![p].pc = "update_history"]
    /\ UNCHANGED <<file, fileSize, lastWriter>>
    /\ UNCHANGED concRest

\* run_command of invocation p, line 157
ConcUpdateHistory(p) ==
    /\ procs[p].pc = "update_history"
    /\ procs' = [procs EXCEPT
                   ![p].history = update_history(procs[p].history,
                                                 procs[p].command, procs[p].limit),
                   ![p].pc = "save_open"]
    /\ UNCHANGED <<file, fileSize, lastWriter>>
    /\ UNCHANGED concRest

\* save_history of invocation p, lines 58-60: the directory is there, and
\* open("w") truncates the file
ConcSaveOpen(p) ==
    /\ procs[p].pc = "save_open"
    /\ file' = FileBadJson
    /\ fileSize' = 0
    /\ procs' = [procs EXCEPT ![p].pc = "save_write"]
    /\ UNCHANGED lastWriter
    /\ UNCHANGED concRest

\* save_history of invocation p, line 61 and the close: the text goes to
\* offset 0; what another invocation wrote beyond its end stays
ConcSaveWrite(p) ==
    /\ procs[p].pc = "save_write"
    /\ IF JsonSize(procs[p].history) >= fileSize
       THEN /\ file' = JsonDump(procs[p].history)
            /\ fileSize' = JsonSize(procs[p].history)
       ELSE /\ file' = FileBadJson
            /\ UNCHANGED fileSize
    /\ lastWriter' = p
    /\ procs' = [procs EXCEPT ![p].pc = "exited"]
    /\ UNCHANGED concRest

NextConc ==
    \/ \E p \in DOMAIN procs : ConcLoad(p)
    \/ \E p \in DOMAIN procs : ConcSubprocess(p)
    \/ \E p \in DOMAIN procs : ConcUpdateHistory(p)
    \/ \E p \in DOMAIN procs : ConcSaveOpen(p)
    \/ \E p \in DOMAIN procs : ConcSaveWrite(p)

SpecConc == InitConc /\ [][NextConc]_vars

----------------------------------------------------------------------------
(* Reference definitions, from the specification's wording *)

\* s with every entry equal to c removed, the others in their order
RECURSIVE RemoveAll(_, _)
RemoveAll(s, c) ==
    IF s = <<>> THEN <<>>
    ELSE IF Head(s) = c THEN RemoveAll(Tail(s), c)
    ELSE <<Head(s)>> \o RemoveAll(Tail(s), c)

\* the first n entries of s, for n >= 0
FirstN(s, n) == [i \in 1..(IF n < Len(s) THEN n ELSE Len(s)) |-> s[i]]

NoDuplicates(s) == \A i, j \in 1..Len(s) : i # j => s[i] # s[j]

\* the commands that are handled without a process
PseudoCommands == {S_empty, S_clear, S_cls, S_exit, S_quit}
IsPseudo(c) == lower(strip(c)) \in PseudoCommands

\* run_command has been called in this invocation
RunCommandCalled ==
    pc \in {"run_command", "subprocess", "update_history", "save_mkdir",
            "save_open", "save_write", "run_return", "emit"}
    \/ (pc = "exited" /\ response.type = "run")

\* the action field of a response, "absent" when it has none
ActionOf(r) == IF "action" \in DOMAIN r THEN r.action ELSE "absent"

----------------------------------------------------------------------------
(* Claims *)

\* C1: after update_history(record, c, limit) with limit >= 1 the history is
\* the first `limit` entries of c followed by the old history without the
\* entries equal to c (compared exactly, so LS and ls are different), and
\* last_command is c; from the empty record, ls, pwd, ls with limit 3 give
\* the history ls, pwd and last_command ls.
C1_UpdateContract ==
    /\ uCalls # <<>> =>
        /\ history.history =
               FirstN(<<command>> \o RemoveAll(uPrev.history, command), limit)
        /\ history.last_command = command
    /\ (loaded = DEFAULT_HISTORY /\ limit = 3 /\ uCalls = <<S_ls, S_pwd, S_ls>>) =>
        history = [history |-> <<S_ls, S_pwd>>, last_command |-> S_ls]

\* the example's end state: ls, pwd, ls applied to the empty record, limit 3
C1_Witness ==
    /\ loaded = DEFAULT_HISTORY
    /\ limit = 3
    /\ uCalls = <<S_ls, S_pwd, S_ls>>
    /\ history.history = <<S_ls, S_pwd>>

\* C2: after one or more update_history calls with limit L the history is
\* never longer than L, whatever the starting record.
C2_LengthBounded ==
    uCalls # <<>> => Len(history.history) <= limit

\* a starting record longer than the limit, cut down by the first call
C2_Witness ==
    /\ Len(loaded.history) > limit
    /\ Len(uCalls) = 1
    /\ Len(history.history) = limit

\* C3: the record load_history returns and the history of every history or
\* run response has no duplicate entries and at most the invocation's
\* configured maximum of entries.
C3_RecordInvariants ==
    LET max == PyMax1(args.max_history)
        Good(h) == NoDuplicates(h) /\ Len(h) <= max
    IN  /\ pc = "dispatch" => Good(loaded.history)
        /\ \A i \in 1..Len(emitted) :
               emitted[i].type \in {"history", "run"} => Good(emitted[i].history)

\* C4: load_history returns to main whatever the file holds, and returns
\* the default record when the file is absent, unreadable, not text, not
\* JSON, not an object, or an object whose history is not a list.
C4_LoadDegrades ==
    [][LoadHistory =>
          /\ pc' = "dispatch"
          /\ (\/ file.kind \in {"absent", "bytes_invalid", "text_invalid",
                                "not_object"}
              \/ (file.kind = "object" /\ ~file.histIsList)
              \/ loadOutcome' = "oserror")
             => loaded' = DEFAULT_HISTORY]_vars

\* C5: when save_history fails at any step of an executed run, the
\* invocation still emits the run response, with the command and the
\* process's result, and ends normally.
C5_SaveFailureHarmless ==
    (pc = "exited" /\ saveFailed # "none") =>
        /\ emitted = <<response>>
        /\ response.type = "run"
        /\ response.command = command
        /\ exitCode = 0

\* C6: a run of a pseudo-command (empty, clear, cls, exit, quit in any case
\* and with any surrounding whitespace) starts no process, calls neither
\* update_history nor save_history, leaves the file and the in-memory record
\* as they were, and answers exit_code 0, empty stdout and stderr and the
\* history and last_command as loaded; only other commands update and save.
C6_PseudoFrame ==
    /\ [](RunCommandCalled =>
            IF IsPseudo(command)
            THEN /\ launched = 0 /\ updates = 0 /\ saves = 0 /\ writes = 0
                 /\ history = loaded
                 /\ pc \in {"run_command", "emit", "exited"}
                 /\ pc # "run_command" =>
                        /\ response.exit_code = 0
                        /\ response.stdout = "" /\ response.stderr = ""
                        /\ response.history = loaded.history
                        /\ response.last_command = loaded.last_command
                 /\ pc = "exited" => emitted = <<response>>
            ELSE TRUE)
    /\ []((updates > 0 \/ saves > 0) => ~IsPseudo(command))
    /\ [][(RunCommandCalled /\ IsPseudo(command) /\ pc # "exited")
              => (file' = file /\ dirState' = dirState /\ history' = history)]_vars

\* QUIT answered without a process, with a loaded history to keep
C6_Witness ==
    /\ pc = "exited"
    /\ command = <<"Q", "U", "I", "T">>
    /\ loaded.history # <<>>
    /\ emitted = <<response>>
    /\ response.history = loaded.history
    /\ launched = 0

\* C7: a run response's action is clear exactly when the trimmed, lowercased
\* command is clear or cls, exit exactly when it is exit or quit, and absent
\* for the empty command and for every executed command.
C7_ActionField ==
    LET Expected(c) ==
            LET low == lower(strip(c))
            IN  IF low \in {S_clear, S_cls} THEN "clear"
                ELSE IF low \in {S_exit, S_quit} THEN "exit"
                ELSE "absent"
        Good(r) == r.type = "run" => ActionOf(r) = Expected(r.command)
    IN  /\ pc = "emit" => Good(response)
        /\ \A i \in 1..Len(emitted) : Good(emitted[i])

\* " Clear" answered with the clear action
C7_Witness ==
    /\ emitted # <<>>
    /\ emitted[1].type = "run"
    /\ emitted[1].command = <<"C", "l", "e", "a", "r">>
    /\ ActionOf(emitted[1]) = "clear"

\* C8: when the shell cannot be launched, the invocation still emits the
\* response, with exit_code -1, the diagnostic in stderr and empty stdout,
\* and ends with process exit code 0.
C8_LaunchFailureReported ==
    (pc = "exited" /\ response.type = "run"
         /\ response.stderr = "Execution error") =>
        /\ emitted = <<response>>
        /\ response.exit_code = -1
        /\ response.stdout = ""
        /\ exitCode = 0

\* C9: an invocation with the history flag starts no process, never writes
\* the file, and emits a history response holding the loaded record, with
\* process exit code 0.
C9_HistoryRequest ==
    (pc = "exited" /\ args.ok /\ args.history) =>
        /\ launched = 0 /\ writes = 0 /\ updates = 0
        /\ emitted = <<[type |-> "history", history |-> loaded.history,
                        last_command |-> loaded.last_command,
                        shell |-> detect_shell(env)]>>
        /\ exitCode = 0

\* C10: an invocation whose arguments parse ends with a nonzero process exit
\* code only when neither the run nor the history flag is set.
C10_OnlyNoActionFails ==
    (pc = "exited" /\ args.ok /\ exitCode # 0) => (~args.run /\ ~args.history)

\* C11: an invocation with neither the run nor the history flag emits the
\* error response with exit_code 1, ends with process exit code 1, starts no
\* process and does not write the history file, whatever command or encoded
\* payload it was given.
C11_NoActionError ==
    (pc = "exited" /\ args.ok /\ ~args.run /\ ~args.history) =>
        /\ Len(emitted) = 1
        /\ emitted[1].type = "error"
        /\ emitted[1].exit_code = 1
        /\ exitCode = 1
        /\ launched = 0 /\ updates = 0 /\ saves = 0 /\ writes = 0

\* load_history and save_history have both returned, without an I/O error
RoundTripDone ==
    pc = "run_return" /\ saveFailed = "none" /\ loadOutcome # "oserror"

\* the history and last_command a file's JSON value holds (a missing key is
\* its default, other keys are not part of the record)
RecordOf(f) ==
    [object |-> f.kind = "object",
     isList |-> f.histIsList,
     items |-> f.items,
     lc |-> IF f.lc = JAbsent THEN JStr(S_empty) ELSE f.lc]

\* a JSON object whose history is a list of strings and whose last_command,
\* if present, is a string
StringRecord(f) ==
    /\ f.kind = "object"
    /\ f.histIsList
    /\ \A i \in 1..Len(f.items) : f.items[i].t = "str"
    /\ f.lc.t \in {"str", "absent"}

\* C12 as stated: for every file holding valid JSON (entries or last_command
\* that are not strings, extra keys and a top-level value that is not an
\* object included), load_history followed by save_history leaves a file
\* holding a record equivalent to the one it held.
C12_RoundTripAnyJson ==
    RoundTripDone => RecordOf(file) = RecordOf(fileBefore)

\* C12, amended: the round trip keeps the history and last_command of a file
\* holding an object whose history is a list of strings and whose
\* last_command is a string or missing; for every file holding valid JSON the
\* file written holds only strings and loads to the record that was loaded.
C12_RoundTripStrings ==
    RoundTripDone =>
        /\ StringRecord(fileBefore) => RecordOf(file) = RecordOf(fileBefore)
        /\ StringRecord(file)
        /\ load_history(file, FALSE).rec = loaded

\* a record of two entries and a last_command, with another key, written back
C12_Witness ==
    /\ RoundTripDone
    /\ StringRecord(fileBefore)
    /\ Len(fileBefore.items) = 2
    /\ fileBefore.lc = JStr(S_ls)
    /\ fileBefore.extra
    /\ RecordOf(file) = RecordOf(fileBefore)

\* the first path of s that exists in environment e, "" when none does
RECURSIVE FirstExisting(_, _)
FirstExisting(s, e) ==
    IF s = <<>> THEN ""
    ELSE IF Head(s) # "" /\ Head(s) \in e.existing THEN Head(s)
    ELSE FirstExisting(Tail(s), e)

\* C13 as stated: detect_shell returns the first path that exists among the
\* override variable, SHELL and the candidates in their order, and /bin/sh
\* when none exists; so SHELL's path when the override names no file.
C13_FirstExistingOfAll ==
    pc = "detected" =>
        shell = (LET first == FirstExisting(
                                  <<env.TERMINAL_BUDDY_SHELL, env.SHELL>>
                                      \o candidates, env)
                 IN  IF first # "" THEN first ELSE "/bin/sh")

\* C13, amended: detect_shell always returns a value; it looks at one
\* environment path only, the override when that is set and SHELL otherwise,
\* and returns it when it exists; otherwise it returns the first candidate
\* that exists, and /bin/sh when none does.
C13_OneEnvironmentPath ==
    pc = "detected" =>
        LET one == IF env.TERMINAL_BUDDY_SHELL # ""
                   THEN env.TERMINAL_BUDDY_SHELL ELSE env.SHELL
            first == FirstExisting(candidates, env)
        IN  /\ shell # ""
            /\ (one # "" /\ one \in env.existing) => shell = one
            /\ ~(one # "" /\ one \in env.existing) =>
                   shell = (IF first # "" THEN first ELSE "/bin/sh")

\* the override names no file, SHELL does, and a candidate is returned
C13_Witness ==
    /\ pc = "detected"
    /\ env.TERMINAL_BUDDY_SHELL = "/opt/fish"
    /\ "/opt/fish" \notin env.existing
    /\ env.SHELL = "/opt/ksh"
    /\ "/opt/ksh" \in env.existing
    /\ shell = "/bin/zsh"

\* C14: a non-empty encoded payload that does not decode gives the empty
\* command, the raw command argument is not used instead, and the run is
\* handled as the empty case: no process, no history update or save,
\* exit_code 0, no action field, process exit code 0.
C14_UndecodablePayload ==
    (/\ args.ok /\ args.run /\ ~args.history
     /\ args.encoded.given /\ args.encoded.text # S_empty /\ ~args.encoded.b64ok
     /\ RunCommandCalled) =>
        /\ command = S_empty
        /\ launched = 0 /\ updates = 0 /\ saves = 0 /\ writes = 0
        /\ pc \in {"run_command", "emit", "exited"}
        /\ pc # "run_command" =>
               /\ response.command = S_empty
               /\ response.exit_code = 0
               /\ ActionOf(response) = "absent"
        /\ pc = "exited" => (emitted = <<response>> /\ exitCode = 0)

\* --encoded abc with --command LS: answered as the empty command
C14_Witness ==
    /\ pc = "exited"
    /\ args.run /\ ~args.history
    /\ args.encoded = EncArg(<<"a", "b", "c">>, FALSE, <<>>)
    /\ args.command = RawArg(S_LS)
    /\ emitted = <<response>>
    /\ response.type = "run"
    /\ response.command = S_empty
    /\ launched = 0

\* C17: the limit run_command gets is max(1, requested): when the requested
\* max-history is zero or negative the limit is 1, and an executed run
\* leaves a history of exactly one entry, the command just executed, in
\* memory, in the response, and in the file when the save succeeds; never an
\* empty history, never the old history cut from its tail.
C17_LimitClamped ==
    (/\ args.ok /\ args.run /\ ~args.history /\ args.max_history <= 0
     /\ RunCommandCalled) =>
        LET one == [history |-> <<command>>, last_command |-> command]
        IN  /\ limit = 1
            /\ updates = 1 => history = one
            /\ (launched = 1 /\ pc = "emit") => response.history = <<command>>
            /\ \A i \in 1..Len(emitted) :
                   launched = 1 => emitted[i].history = <<command>>
            /\ (updates = 1 /\ saveFailed = "none"
                    /\ pc \in {"run_return", "emit", "exited"}) =>
                   file = JsonDump(one)

\* --max-history -1 on a loaded history of two entries or more: the run
\* answers and stores the one command
C17_Witness ==
    /\ pc = "exited"
    /\ args.run /\ ~args.history
    /\ args.max_history = -1
    /\ Len(loaded.history) >= 2
    /\ launched = 1
    /\ emitted = <<response>>
    /\ response.history = <<command>>
    /\ file = JsonDump([history |-> <<command>>, last_command |-> command])

\* C18: in a run that reaches the execution branch, whatever the process's
\* outcome, update_history and save_history are each called once, after
\* the process attempt and before the response is emitted; the emitted
\* response's last_command is the executed command and the first entry of
\* its history, and when the save succeeds its history and last_command are
\* the record in the file.
C18_UpdateSaveOnce ==
    /\ updates <= 1 /\ saves <= 1
    /\ pc = "subprocess" => (launched = 0 /\ updates = 0 /\ saves = 0)
    /\ updates = 1 => launched = 1
    /\ saves = 1 => updates = 1
    /\ (launched = 1 /\ (pc \in {"run_return", "emit"} \/ emitted # <<>>)) =>
           (updates = 1 /\ saves = 1)
    /\ (launched = 1 /\ pc = "exited" /\ emitted # <<>>) => emitted = <<response>>
    /\ (launched = 1 /\ (pc = "emit" \/ emitted # <<>>)) =>
           /\ response.exit_code \in {0, 1, -1}
           /\ response.last_command = command
           /\ response.history # <<>>
           /\ response.history[1] = command
           /\ saveFailed = "none" =>
                  file = JsonDump([history |-> response.history,
                                   last_command |-> response.last_command])

\* a launch failure on a loaded history: updated, saved and answered
C18_Witness ==
    /\ pc = "exited"
    /\ launched = 1 /\ updates = 1 /\ saves = 1
    /\ loaded.history # <<>>
    /\ response.exit_code = -1
    /\ emitted = <<response>>
    /\ response.last_command = command
    /\ saveFailed = "none"
    /\ file = JsonDump([history |-> response.history,
                        last_command |-> response.last_command])

\* C20: an invocation whose arguments parse ends having emitted exactly one
\* response, of type history with the history flag, error with neither
\* flag, and run otherwise, whichever step failed on the way.
C20_OneResponse ==
    (pc = "exited" /\ args.ok) =>
        /\ Len(emitted) = 1
        /\ emitted[1].type = (IF args.history THEN "history"
                              ELSE IF ~args.run THEN "error" ELSE "run")

\* the distinct entries of s, the most recently added (rightmost) first
RECURSIVE MostRecentFirst(_)
MostRecentFirst(s) ==
    IF s = <<>> THEN <<>>
    ELSE LET last == s[Len(s)]
         IN  <<last>> \o MostRecentFirst(RemoveAll(SubSeq(s, 1, Len(s) - 1), last))

\* the file the reference list calls for after the commands cmds, limit L
MruFile(cmds, L) ==
    IF cmds = <<>> THEN FileAbsent
    ELSE FileObject(TRUE,
                    [i \in 1..Len(FirstN(MostRecentFirst(cmds), L)) |->
                        JStr(FirstN(MostRecentFirst(cmds), L)[i])],
                    JStr(cmds[Len(cmds)]), FALSE)

\* C19 as stated: between the invocations of a sequence that starts from an
\* absent file, uses one limit L >= 1 and has successful saves, the file
\* holds the first L of all the distinct commands executed so far, the most
\* recently executed first, and last_command is the most recent one.
C19_MruOfAllExecuted ==
    pc \in {"idle", "exited"} => file = MruFile(seq.cmds, seq.limit)

\* C19, amended: the file holds the reference list of the commands executed
\* since, and in, the last run whose load_history could not read the file
\* (of all executed commands when every load read it); an invocation that
\* executes nothing leaves the file as it found it.
C19_MruSinceReadFailure ==
    /\ pc \in {"idle", "exited"} => file = MruFile(seq.kept, seq.limit)
    /\ (pc = "exited" /\ launched = 0) => file = fileBefore

\* ls, pwd, LS with limit 2, every load reading the file: LS, pwd are kept
C19_Witness ==
    /\ pc = "exited"
    /\ seq.cmds = <<S_ls, S_pwd, S_LS>>
    /\ seq.kept = seq.cmds
    /\ seq.limit = 2
    /\ file = FileObject(TRUE, <<JStr(S_LS), JStr(S_pwd)>>, JStr(S_LS), FALSE)

\* C15: last writer wins.  When the overlapping runs have all finished, the
\* file holds exactly the record of the invocation whose write came last:
\* the snapshot that invocation loaded, updated with its own command.
C15_LastWriterWins ==
    (/\ lastWriter # 0
     /\ \A p \in DOMAIN procs : procs[p].pc = "exited") =>
        file = JsonDump(update_history(procs[lastWriter].loaded,
                                       procs[lastWriter].command,
                                       procs[lastWriter].limit))

\* C16: the write-back is atomic for the other invocations: none of them
\* loads a truncated or partial file, which it would take for the default
\* record.
C16_AtomicWriteBack ==
    \A p \in DOMAIN procs : procs[p].loadOutcome # "jsonerror"

====
